---- MODULE Spec2Model ----
(***************************************************************************)
(* Model of main.py: the company-enrichment endpoint handle_batch_request  *)
(* and the text analysis it relies on (extract_industry_and_prefecture and *)
(* the excerpt selection).                                                 *)
(*                                                                         *)
(* A text is a sequence of Unicode code points, so that substring tests,   *)
(* regular-expression windows and slices are computed on characters as     *)
(* Python computes them.  The keyword table below is main.py's table,      *)
(* character by character.                                                 *)
(***************************************************************************)
EXTENDS Integers, Sequences, FiniteSets, TLC

VARIABLES
  items,           \* payload.items: the input batch
  idx,             \* position of the for-loop over payload.items (0 before the first)
  pc,              \* position inside handle_batch_request
  url,             \* locals of the loop body
  snippet_text,
  text,
  info,
  industry,
  prefecture,
  search_outcome,  \* what ddgs.text did for the current record
  fetch_outcome,   \* what requests.get did for the current record
  enriched_items,  \* the output list
  events,          \* the external events and record assemblies so far, in order
  returned,        \* the value handle_batch_request returned
  fn,              \* pure-function harness: which function is applied
  arg,             \* pure-function harness: its argument
  ret              \* pure-function harness: its result

vars == <<items, idx, pc, url, snippet_text, text, info, industry, prefecture,
          search_outcome, fetch_outcome, enriched_items, events, returned,
          fn, arg, ret>>

orchestrator_vars == <<items, idx, pc, url, snippet_text, text, info, industry,
                       prefecture, search_outcome, fetch_outcome, enriched_items,
                       events, returned>>

harness_vars == <<fn, arg, ret>>

-----------------------------------------------------------------------------
(* main.py:23-43.  Labels and keywords as code point sequences, in the     *)
(* order of the dict literal (dict iteration order is insertion order).    *)
industry_keywords ==
  <<
    \* 1: agriculture, forestry
    [name |-> <<36786, 26989, 12539, 26519, 26989>>,
     keywords |-> <<
       <<36786, 26989>>,
       <<26519, 26989>>,
       <<26685, 22521>>,
       <<30044, 29987>>,
       <<20240, 25505>>
     >>],
    \* 2: fisheries
    [name |-> <<28417, 26989>>,
     keywords |-> <<
       <<28417, 26989>>,
       <<27700, 29987>>,
       <<39178, 27542>>,
       <<28417, 28207>>
     >>],
    \* 3: mining, quarrying, gravel
    [name |-> <<37489, 26989, 12289, 25505, 30707, 26989, 12289, 30722, 21033, 25505, 21462, 26989>>,
     keywords |-> <<
       <<25505, 30707>>,
       <<37489, 23665>>,
       <<25505, 25496>>,
       <<37489, 26989, 25152>>
     >>],
    \* 4: construction
    [name |-> <<24314, 35373, 26989>>,
     keywords |-> <<
       <<26045, 24037>>,
       <<24037, 20107>>,
       <<35299, 20307>>,
       <<12522, 12501, 12457, 12540, 12512>>,
       <<20869, 35013>>,
       <<22806, 22721>>,
       <<35373, 35336>>
     >>],
    \* 5: manufacturing
    [name |-> <<35069, 36896, 26989>>,
     keywords |-> <<
       <<35069, 36896>>,
       <<21152, 24037>>,
       <<24037, 22580>>,
       <<29983, 29987>>,
       <<37096, 21697>>
     >>],
    \* 6: electricity, gas, heat, water
    [name |-> <<38651, 27671, 12539, 12460, 12473, 12539, 29105, 20379, 32102, 12539, 27700, 36947, 26989>>,
     keywords |-> <<
       <<38651, 21147>>,
       <<12460, 12473>>,
       <<27700, 36947>>,
       <<12452, 12531, 12501, 12521>>
     >>],
    \* 7: information and communications
    [name |-> <<24773, 22577, 36890, 20449, 26989>>,
     keywords |-> <<
       <<12471, 12473, 12486, 12512, 38283, 30330>>,
       <<73, 84>>,
       <<12463, 12521, 12454, 12489>>,
       <<12450, 12503, 12522>>,
       <<12477, 12501, 12488, 12454, 12455, 12450>>
     >>],
    \* 8: transport, postal
    [name |-> <<36939, 36664, 26989, 12289, 37109, 20415, 26989>>,
     keywords |-> <<
       <<36939, 36865>>,
       <<29289, 27969>>,
       <<37197, 36865>>,
       <<12488, 12521, 12483, 12463>>,
       <<37109, 20415>>
     >>],
    \* 9: wholesale, retail
    [name |-> <<21368, 22770, 26989, 12289, 23567, 22770, 26989>>,
     keywords |-> <<
       <<36009, 22770>>,
       <<23567, 22770>>,
       <<21368>>,
       <<36890, 36009>>,
       <<24215, 33303>>
     >>],
    \* 10: finance, insurance
    [name |-> <<37329, 34701, 26989, 12289, 20445, 38522, 26989>>,
     keywords |-> <<
       <<20445, 38522>>,
       <<37329, 34701>>,
       <<37504, 34892>>,
       <<35388, 21048>>,
       <<12525, 12540, 12531>>
     >>],
    \* 11: real estate, goods rental
    [name |-> <<19981, 21205, 29987, 26989, 12289, 29289, 21697, 36035, 36024, 26989>>,
     keywords |-> <<
       <<19981, 21205, 29987>>,
       <<36035, 36024>>,
       <<20210, 20171>>,
       <<29289, 20214>>
     >>],
    \* 12: academic research, professional and technical services
    [name |-> <<23398, 34899, 30740, 31350, 12289, 23554, 38272, 12539, 25216, 34899, 12469, 12540, 12499, 12473, 26989>>,
     keywords |-> <<
       <<30740, 31350>>,
       <<38283, 30330>>,
       <<25216, 34899, 25903, 25588>>,
       <<12467, 12531, 12469, 12523>>
     >>],
    \* 13: accommodation, food services
    [name |-> <<23487, 27850, 26989, 12289, 39154, 39135, 12469, 12540, 12499, 12473, 26989>>,
     keywords |-> <<
       <<12507, 12486, 12523>>,
       <<26053, 39208>>,
       <<39154, 39135>>,
       <<12524, 12473, 12488, 12521, 12531>>
     >>],
    \* 14: living-related services, amusement
    [name |-> <<29983, 27963, 38306, 36899, 12469, 12540, 12499, 12473, 26989, 12289, 23087, 27005, 26989>>,
     keywords |-> <<
       <<32654, 23481, 38498>>,
       <<12510, 12483, 12469, 12540, 12472>>,
       <<23087, 27005>>,
       <<12456, 12473, 12486>>,
       <<12506, 12483, 12488>>
     >>],
    \* 15: education, learning support
    [name |-> <<25945, 32946, 12289, 23398, 32722, 25903, 25588, 26989>>,
     keywords |-> <<
       <<25945, 32946>>,
       <<23398, 26657>>,
       <<23398, 32722>>,
       <<22654>>,
       <<30740, 20462>>
     >>],
    \* 16: medical, welfare
    [name |-> <<21307, 30274, 12289, 31119, 31049>>,
     keywords |-> <<
       <<12463, 12522, 12491, 12483, 12463>>,
       <<30149, 38498>>,
       <<20171, 35703>>,
       <<30475, 35703>>,
       <<31119, 31049, 26045, 35373>>
     >>],
    \* 17: compound services
    [name |-> <<35079, 21512, 12469, 12540, 12499, 12473, 20107, 26989>>,
     keywords |-> <<
       <<37109, 20415, 23616>>,
       <<36786, 21332>>,
       <<29983, 21332>>,
       <<28417, 21332>>
     >>],
    \* 18: services not elsewhere classified
    [name |-> <<12469, 12540, 12499, 12473, 26989, 65288, 20182, 12395, 20998, 39006, 12373, 12428, 12394, 12356, 12418, 12398, 65289>>,
     keywords |-> <<
       <<28165, 25475>>,
       <<35686, 20633>>,
       <<12524, 12531, 12479, 12523>>,
       <<20195, 34892>>,
       <<12513, 12531, 12486, 12490, 12531, 12473>>
     >>],
    \* 19: public service
    [name |-> <<20844, 21209, 65288, 20182, 12395, 20998, 39006, 12373, 12428, 12427, 12418, 12398, 12434, 38500, 12367, 41>>,
     keywords |-> <<
       <<24066, 24441, 25152>>,
       <<23448, 20844, 24193>>,
       <<33258, 27835, 20307>>,
       <<34892, 25919>>
     >>]
  >>

\* main.py:54 -- the sentinel label, "unclassifiable industry"
UNCLASSIFIABLE == <<20998, 39006, 19981, 33021, 12398, 29987, 26989>>

-----------------------------------------------------------------------------
(* Text helpers: Python's str and re primitives on code point sequences.   *)

Min(S) == CHOOSE x \in S : \A y \in S : x <= y

Chars(t) == {t[i] : i \in 1..Len(t)}

\* the word w occurs in t at (1-based) position p
MatchesAt(w, t, p) ==
  /\ p >= 1
  /\ p + Len(w) - 1 <= Len(t)
  /\ \A j \in 1..Len(w) : t[p + j - 1] = w[j]

\* Python: kw in text
Contains(kw, t) ==
  \E p \in 1..(Len(t) - Len(kw) + 1) : t[p] = kw[1] /\ MatchesAt(kw, t, p)

\* Python: t[a:b], with Python's treatment of negative and oversized indices
PySlice(t, a, b) ==
  LET n  == Len(t)
      lo == IF a < 0 THEN (IF n + a < 0 THEN 0 ELSE n + a) ELSE (IF a > n THEN n ELSE a)
      hi == IF b < 0 THEN (IF n + b < 0 THEN 0 ELSE n + b) ELSE (IF b > n THEN n ELSE b)
  IN  IF lo >= hi THEN <<>> ELSE SubSeq(t, lo + 1, hi)

\* str.isspace(): the characters str.strip() removes
Whitespace ==
  (9..13) \cup (28..32) \cup {133, 160, 5760} \cup (8192..8202)
          \cup {8232, 8233, 8239, 8287, 12288}

\* Python: t.strip()
Strip(t) ==
  LET n     == Len(t)
      solid == {i \in 1..n : t[i] \notin Whitespace}
      back  == {j \in 1..n : t[n + 1 - j] \notin Whitespace}
  IN  IF solid = {} THEN <<>> ELSE SubSeq(t, Min(solid), n + 1 - Min(back))

-----------------------------------------------------------------------------
(* extract_industry_and_prefecture, main.py:47-67                          *)

\* a HitNum that drops the hits of the label "finance, insurance" (the 10th)
\* that the word "transfer destination" immediately precedes
HitNumSuppressing(n, t, cs) ==
  LET kws   == industry_keywords[n].keywords
      cue   == <<25391, 36796, 20808>>
      at(k) == {p \in 1..Len(t) : MatchesAt(kws[k], t, p)}
  IN  Cardinality({k \in 1..Len(kws) :
        /\ at(k) # {}
        /\ ~(n = 10 /\ \A p \in at(k) : MatchesAt(cue, t, p - Len(cue)))})

\* main.py:49-52: the number of keywords of the n-th label that occur in t
\* (one append of the label per keyword that occurs).  cs is the set of the
\* characters of t: a keyword whose first character is not among them does
\* not occur, and is not searched for.
HitNum(n, t, cs) ==
  LET kws == industry_keywords[n].keywords
  IN  Cardinality({k \in 1..Len(kws) : kws[k][1] \in cs /\ Contains(kws[k], t)})

RECURSIVE HitsFrom(_, _, _)
HitsFrom(n, t, cs) ==
  IF n > Len(industry_keywords)
  THEN <<>>
  ELSE [j \in 1..HitNum(n, t, cs) |-> n] \o HitsFrom(n + 1, t, cs)

\* main.py:48-52: keyword_hits, each hit the table index of its label
keyword_hits(t) == HitsFrom(1, t, Chars(t))

\* a most_common_1 that takes the last inserted key of maximal count
last_common_1(hits) ==
  LET keys     == {hits[i] : i \in 1..Len(hits)}
      count(n) == Cardinality({i \in 1..Len(hits) : hits[i] = n})
      first(n) == Min({i \in 1..Len(hits) : hits[i] = n})
      best     == {n \in keys : \A m \in keys : count(m) <= count(n)}
  IN  CHOOSE n \in best : \A m \in best : first(m) <= first(n)

\* a most_common_1 that takes the key of least count
least_common_1(hits) ==
  LET keys     == {hits[i] : i \in 1..Len(hits)}
      count(n) == Cardinality({i \in 1..Len(hits) : hits[i] = n})
      first(n) == Min({i \in 1..Len(hits) : hits[i] = n})
      worst    == {n \in keys : \A m \in keys : count(n) <= count(m)}
  IN  CHOOSE n \in worst : \A m \in worst : first(n) <= first(m)

\* Counter(hits).most_common(1)[0][0]: Counter keeps its keys in order of
\* first insertion and max() returns the first key of maximal count
most_common_1(hits) ==
  LET keys     == {hits[i] : i \in 1..Len(hits)}
      count(n) == Cardinality({i \in 1..Len(hits) : hits[i] = n})
      first(n) == Min({i \in 1..Len(hits) : hits[i] = n})
      best     == {n \in keys : \A m \in keys : count(m) <= count(n)}
  IN  CHOOSE n \in best : \A m \in best : first(n) <= first(m)

\* main.py:54-56
classify_industry(t) ==
  LET hits == keyword_hits(t)
  IN  IF hits # <<>> THEN industry_keywords[most_common_1(hits)].name
                     ELSE UNCLASSIFIABLE

\* main.py:45: pref_pattern alternatives
TOKYO_TO == <<26481, 20140, 37117>>

HOKKAIDO == <<21271, 28023, 36947>>

KYOTO_FU == <<20140, 37117, 24220>>

OSAKA_FU == <<22823, 38442, 24220>>

\* the suffix "ken" (prefecture)
KEN_SUFFIX == <<30476>>

\* "." of a regular expression: any character but the newline
Dot(c) == c # 10

\* main.py:45: the length of the match of pref_pattern starting at position
\* p, or 0.  Alternatives are tried left to right, .{2,3} tries 3 before 2.
PrefLenAt(t, p) ==
  IF MatchesAt(TOKYO_TO, t, p) THEN 3
  ELSE IF MatchesAt(HOKKAIDO, t, p) THEN 3
  ELSE IF MatchesAt(KYOTO_FU, t, p) THEN 3
  ELSE IF MatchesAt(OSAKA_FU, t, p) THEN 3
  ELSE IF /\ p >= 1
          /\ MatchesAt(KEN_SUFFIX, t, p + 3)
          /\ \A d \in 0..2 : Dot(t[p + d]) THEN 4
  ELSE IF /\ p >= 1
          /\ MatchesAt(KEN_SUFFIX, t, p + 2)
          /\ \A d \in 0..1 : Dot(t[p + d]) THEN 3
  ELSE 0

\* main.py:59: the address cue words, in the order of the alternation:
\* head office location, head office, location, address, business office,
\* postal mark
ADDRESS_CUES ==
  << <<26412, 31038, 25152, 22312, 22320>>,
     <<26412, 31038>>,
     <<25152, 22312, 22320>>,
     <<20303, 25152>>,
     <<20107, 26989, 25152>>,
     <<12306>> >>

\* main.py:59: the characters the filler [^...] excludes: ideographic full
\* stop, middle dot, newline, carriage return
FILLER_STOP == {12290, 12539, 10, 13}

\* main.py:59: the {0,20} of the filler
FILLER_MAX == 20

\* main.py:59: the filler lengths k for which [^...]{k} fits at position
\* `from` and pref_pattern matches right after it
FillerGaps(t, from) ==
  {k \in 0..FILLER_MAX :
     /\ from + k - 1 <= Len(t)
     /\ \A d \in 0..(k - 1) : t[from + d] \notin FILLER_STOP
     /\ PrefLenAt(t, from + k) > 0}

NoMatch == [found |-> FALSE, start |-> 0, lastindex |-> 0, group1 |-> <<>>, group2 |-> <<>>]

\* main.py:59: the match of (cue)?filler{0,20}?pref_pattern anchored at p.
\* The optional group first tries each cue word in order, then no cue word;
\* the lazy filler takes the shortest length that lets the rest match.
AddressMatchAt(t, p) ==
  LET cues   == SelectSeq(ADDRESS_CUES, LAMBDA w : MatchesAt(w, t, p))
      opts   == [n \in 1..(Len(cues) + 1) |->
                   IF n <= Len(cues) THEN Len(cues[n]) ELSE 0]
      usable == {n \in 1..Len(opts) : FillerGaps(t, p + opts[n]) # {}}
  IN  IF usable = {} THEN NoMatch
      ELSE LET c == opts[Min(usable)]
               q == p + c + Min(FillerGaps(t, p + c))
           IN  [found     |-> TRUE,
                start     |-> p,
                lastindex |-> 2,
                group1    |-> SubSeq(t, p, p + c - 1),
                group2    |-> SubSeq(t, q, q + PrefLenAt(t, q) - 1)]

\* main.py:45: every alternative of pref_pattern ends in one of these
PREF_LAST == {37117, 36947, 24220, 30476}

\* main.py:59: the longest cue word and the longest filler: a match anchored
\* at p holds a match of pref_pattern that starts at most this far after p
REACH == 5 + FILLER_MAX

\* re.search: the match at the leftmost position that has one.  Only the
\* positions within REACH before a match of pref_pattern are tried.
address_search(t) ==
  LET qs == IF \A i \in 1..Len(t) : t[i] \notin PREF_LAST THEN {}
            ELSE {q \in 1..Len(t) : PrefLenAt(t, q) > 0}
      ps == {p \in 1..Len(t) :
               /\ \E q \in qs : p <= q /\ q <= p + REACH
               /\ AddressMatchAt(t, p).found}
  IN  IF ps = {} THEN NoMatch ELSE AddressMatchAt(t, Min(ps))

\* main.py:63: re.search(pref_pattern, text)
pref_search(t) ==
  LET ps == {p \in 1..Len(t) : PrefLenAt(t, p) > 0}
  IN  IF ps = {} THEN NoMatch
      ELSE LET p == Min(ps)
           IN  [found |-> TRUE, start |-> p, lastindex |-> 1,
                group1 |-> SubSeq(t, p, p + PrefLenAt(t, p) - 1), group2 |-> <<>>]

\* main.py:58-65
extract_prefecture(t) ==
  LET match == address_search(t)
  IN  IF match.found
      THEN (IF match.lastindex = 2 THEN match.group2 ELSE match.group1)
      ELSE LET match2 == pref_search(t)
           IN  IF match2.found THEN match2.group1 ELSE <<>>

\* main.py:47-67
extract_industry_and_prefecture(t) ==
  [industry |-> classify_industry(t), prefecture |-> extract_prefecture(t)]

-----------------------------------------------------------------------------
(* The excerpt selection of handle_batch_request, main.py:119-128          *)

\* main.py:122: the cue alternatives: business content (two spellings),
\* service, construction work
EXCERPT_CUES ==
  << <<26989, 21209, 20869, 23481>>,
     <<20107, 26989, 20869, 23481>>,
     <<12469, 12540, 12499, 12473>>,
     <<26045, 24037>> >>

\* main.py:122: the {0,100} of the tail [^\n]{0,100}
TAIL_MAX == 100

\* main.py:124
WINDOW_BEFORE == 100

\* main.py:125
WINDOW_AFTER == 200

\* main.py:128
PREFIX_LEN == 300

\* main.py:122: how many characters the greedy tail [^\n]{0,100} takes from
\* position `from`: up to the next newline, the end of the text or TAIL_MAX
TailLen(t, from) ==
  LET last == IF from + TAIL_MAX - 1 <= Len(t) THEN from + TAIL_MAX - 1 ELSE Len(t)
      nls  == {j \in from..last : t[j] = 10}
  IN  IF nls = {} THEN last - from + 1 ELSE Min(nls) - from

\* main.py:122: re.search of the cue pattern.  start and end are Python's
\* match.start() and match.end() (0-based, end exclusive).  The lazy ".*?"
\* after the last alternative takes nothing, since the tail always matches.
excerpt_search(t) ==
  LET hit(p) == \E n \in 1..Len(EXCERPT_CUES) : MatchesAt(EXCERPT_CUES[n], t, p)
      ps     == {p \in 1..Len(t) : hit(p)}
  IN  IF ps = {} THEN [found |-> FALSE, start |-> 0, end |-> 0]
      ELSE LET p == Min(ps)
               n == Min({m \in 1..Len(EXCERPT_CUES) : MatchesAt(EXCERPT_CUES[m], t, p)})
               c == Len(EXCERPT_CUES[n])
           IN  [found |-> TRUE, start |-> p - 1,
                end |-> p - 1 + c + TailLen(t, p + c)]

\* a dify_context that does not clamp the start of the window to the text
dify_context_unclamped(ind, target_text) ==
  IF ind = UNCLASSIFIABLE
  THEN LET match == excerpt_search(target_text)
       IN  IF match.found
           THEN LET start == match.start - WINDOW_BEFORE
                    end   == IF Len(target_text) < match.end + WINDOW_AFTER
                             THEN Len(target_text) ELSE match.end + WINDOW_AFTER
                IN  Strip(PySlice(target_text, start, end))
           ELSE Strip(PySlice(target_text, 0, PREFIX_LEN))
  ELSE <<>>

\* main.py:120-128: dify_context
dify_context(ind, target_text) ==
  IF ind = UNCLASSIFIABLE
  THEN LET match == excerpt_search(target_text)
       IN  IF match.found
           THEN LET start == IF match.start - WINDOW_BEFORE > 0
                             THEN match.start - WINDOW_BEFORE ELSE 0
                    end   == IF Len(target_text) < match.end + WINDOW_AFTER
                             THEN Len(target_text) ELSE match.end + WINDOW_AFTER
                IN  Strip(PySlice(target_text, start, end))
           ELSE Strip(PySlice(target_text, 0, PREFIX_LEN))
  ELSE <<>>

-----------------------------------------------------------------------------
(* Inputs of the text functions                                            *)

\* words the sample texts are put together from
Pieces ==
  { <<20445, 38522>>,          \* insurance       (keyword of label 10)
    <<37504, 34892>>,          \* bank            (keyword of label 10)
    <<26045, 24037>>,          \* construction work (keyword of label 4, excerpt cue)
    <<37109, 20415, 23616>>,   \* post office     (keyword of label 17, holds a keyword of label 8)
    <<25391, 36796, 20808>>,   \* transfer destination (counterparty cue)
    <<26412, 31038>>,          \* head office     (address cue)
    TOKYO_TO,
    OSAKA_FU,
    <<38738, 26862, 30476>>,   \* Aomori-ken
    <<12290>>,                 \* ideographic full stop
    <<12398>> }                \* the particle "no"

\* the longest sample text, in pieces
MaxPieces == 3

RECURSIVE TextsOf(_)
TextsOf(n) ==
  IF n = 0 THEN {<<>>}
  ELSE LET shorter == TextsOf(n - 1)
       IN  shorter \cup {s \o p : s \in shorter, p \in Pieces}

SampleTexts == TextsOf(MaxPieces)

\* the unit of the run lengths of the window texts
PadUnit == 50

\* the longest run before and after the cue, in units
MaxPads == 3

Pad(n) == [i \in 1..n |-> 97 + (i % 26)]

Blank(n) == [i \in 1..n |-> 32]

RunLens == {k * PadUnit : k \in 0..MaxPads}

LongRunLens == {2 * k * PadUnit : k \in 0..MaxPads}

\* long texts: blanks, a run, a cue phrase or none, a run, a newline or
\* none, a long run
WindowTexts ==
  {Blank(w) \o Pad(a) \o cue \o Pad(b) \o sep \o Pad(c) :
     w \in {0, 3}, a \in RunLens,
     cue \in {EXCERPT_CUES[n] : n \in 1..Len(EXCERPT_CUES)} \cup {<<>>},
     b \in RunLens, sep \in {<<>>, <<10>>}, c \in LongRunLens}

-----------------------------------------------------------------------------
(* The harness applying the text functions to drawn inputs                 *)

NoRet == [done |-> FALSE, industry |-> <<>>, prefecture |-> <<>>, excerpt |-> <<>>]

Idle ==
  /\ items = <<>>
  /\ idx = 0
  /\ pc = "idle"
  /\ url = ""
  /\ snippet_text = <<>>
  /\ text = <<>>
  /\ info = <<>>
  /\ industry = <<>>
  /\ prefecture = <<>>
  /\ search_outcome = "none"
  /\ fetch_outcome = "none"
  /\ enriched_items = <<>>
  /\ events = <<>>
  /\ returned = <<>>

InitExtract ==
  /\ Idle
  /\ fn = "extract"
  /\ arg \in {[industry |-> <<>>, text |-> t] : t \in SampleTexts}
  /\ ret = NoRet

CallExtract ==
  /\ fn = "extract"
  /\ ~ret.done
  /\ LET r == extract_industry_and_prefecture(arg.text)
     IN  ret' = [done |-> TRUE, industry |-> r.industry,
                 prefecture |-> r.prefecture, excerpt |-> <<>>]
  /\ UNCHANGED <<fn, arg>>
  /\ UNCHANGED orchestrator_vars

NextExtract == CallExtract

SpecExtract == InitExtract /\ [][NextExtract]_vars

\* The excerpt selection runs on target_text with the industry derived from
\* it, or with the sentinel after a page of empty text replaced the values of
\* a snippet that had called for the page fetch (main.py:108-119).
InitExcerpt ==
  /\ Idle
  /\ fn = "excerpt"
  /\ \E t \in WindowTexts :
       \E ind \in {classify_industry(t)} \cup
                  (IF extract_prefecture(t) = <<>> THEN {UNCLASSIFIABLE} ELSE {}) :
          arg = [industry |-> ind, text |-> t]
  /\ ret = NoRet

CallExcerpt ==
  /\ fn = "excerpt"
  /\ ~ret.done
  /\ ret' = [done |-> TRUE, industry |-> arg.industry, prefecture |-> <<>>,
             excerpt |-> dify_context(arg.industry, arg.text)]
  /\ UNCHANGED <<fn, arg>>
  /\ UNCHANGED orchestrator_vars

NextExcerpt == CallExcerpt

SpecExcerpt == InitExcerpt /\ [][NextExcerpt]_vars

-----------------------------------------------------------------------------
(* handle_batch_request, main.py:83-178                                    *)

\* main.py:69-72: the company items a batch is made of
CompanyItems ==
  { [company_name |-> "Alpha KK", phone_number |-> "03-0000-0001", email |-> "info@alpha.example"],
    [company_name |-> "Beta GK",  phone_number |-> "06-0000-0002", email |-> "info@beta.example"] }

\* the longest batch
MaxItems == 2

RECURSIVE BatchesOf(_)
BatchesOf(n) ==
  IF n = 0 THEN {<<>>}
  ELSE LET shorter == BatchesOf(n - 1)
       IN  shorter \cup {Append(b, c) : b \in shorter, c \in CompanyItems}

\* a result URL
PAGE_URL == "https://company.example/"

\* main.py:96-99: the first search result, as (href, body); a result
\* without "href" or "body" gives "" for it
SearchResults ==
  { \* "construction work", no href
    [href |-> "",       body |-> <<26045, 24037>>],
    \* no body
    [href |-> PAGE_URL, body |-> <<>>],
    \* "construction work"
    [href |-> PAGE_URL, body |-> <<26045, 24037>>],
    \* "construction work", "head office", "Tokyo-to"
    [href |-> PAGE_URL, body |-> <<26045, 24037, 26412, 31038>> \o TOKYO_TO],
    \* "Tokyo-to", "no"
    [href |-> PAGE_URL, body |-> TOKYO_TO \o <<12398>>] }

\* main.py:113-114: soup.get_text() of the fetched page
PageTexts ==
  { \* a page without text
    <<>>,
    \* "insurance", "Osaka-fu"
    <<20445, 38522>> \o OSAKA_FU,
    \* "no"
    <<12398>>,
    \* blanks, "business content", "no", newline
    <<32, 32, 20107, 26989, 20869, 23481, 12398, 10>> }

Init ==
  /\ items \in BatchesOf(MaxItems)
  /\ idx = 0
  /\ pc = "loop"
  /\ url = ""
  /\ snippet_text = <<>>
  /\ text = <<>>
  /\ info = <<>>
  /\ industry = <<>>
  /\ prefecture = <<>>
  /\ search_outcome = "none"
  /\ fetch_outcome = "none"
  /\ enriched_items = <<>>
  /\ events = <<>>
  /\ returned = <<>>
  /\ fn = "none"
  /\ arg = [industry |-> <<>>, text |-> <<>>]
  /\ ret = NoRet

\* main.py:87-93: the next item of the loop; the four text locals are reset
LoopNext ==
  /\ pc = "loop"
  /\ idx < Len(items)
  /\ idx' = idx + 1
  /\ url' = ""
  /\ snippet_text' = <<>>
  /\ text' = <<>>
  /\ info' = <<>>
  /\ search_outcome' = "none"
  /\ fetch_outcome' = "none"
  /\ pc' = "search"
  /\ UNCHANGED <<items, industry, prefecture, enriched_items, events, returned>>
  /\ UNCHANGED harness_vars

\* main.py:96-100: the search returns a result
SearchReturns(r) ==
  /\ pc = "search"
  /\ url' = r.href
  /\ snippet_text' = r.body
  /\ info' = r.body
  /\ search_outcome' = "result"
  /\ events' = Append(events, <<"search", idx>>)
  /\ pc' = "sleep"
  /\ UNCHANGED <<items, idx, text, industry, prefecture, fetch_outcome,
                 enriched_items, returned>>
  /\ UNCHANGED harness_vars

\* main.py:96-97: the search returns no result
SearchEmpty ==
  /\ pc = "search"
  /\ search_outcome' = "empty"
  /\ events' = Append(events, <<"search", idx>>)
  /\ pc' = "sleep"
  /\ UNCHANGED <<items, idx, url, snippet_text, text, info, industry, prefecture,
                 fetch_outcome, enriched_items, returned>>
  /\ UNCHANGED harness_vars

\* a SearchRaises whose exception is not caught: the handler ends
SearchRaisesUncaught ==
  /\ pc = "search"
  /\ search_outcome' = "raised"
  /\ events' = Append(events, <<"search", idx>>)
  /\ pc' = "done"
  /\ UNCHANGED <<items, idx, url, snippet_text, text, info, industry, prefecture,
                 fetch_outcome, enriched_items, returned>>
  /\ UNCHANGED harness_vars

\* a SearchRaises that skips the delay: the sleep inside the try block
SearchRaisesNoSleep ==
  /\ pc = "search"
  /\ search_outcome' = "raised"
  /\ events' = Append(events, <<"search", idx>>)
  /\ pc' = "classify"
  /\ UNCHANGED <<items, idx, url, snippet_text, text, info, industry, prefecture,
                 fetch_outcome, enriched_items, returned>>
  /\ UNCHANGED harness_vars

\* main.py:101-102: the search raises; the exception is logged
SearchRaises ==
  /\ pc = "search"
  /\ search_outcome' = "raised"
  /\ events' = Append(events, <<"search", idx>>)
  /\ pc' = "sleep"
  /\ UNCHANGED <<items, idx, url, snippet_text, text, info, industry, prefecture,
                 fetch_outcome, enriched_items, returned>>
  /\ UNCHANGED harness_vars

\* main.py:104: time.sleep(random.uniform(2, 3))
Sleep ==
  /\ pc = "sleep"
  /\ events' = Append(events, <<"sleep", idx>>)
  /\ pc' = "classify"
  /\ UNCHANGED <<items, idx, url, snippet_text, text, info, industry, prefecture,
                 search_outcome, fetch_outcome, enriched_items, returned>>
  /\ UNCHANGED harness_vars

\* main.py:106-108: the snippet is classified; the page is fetched when the
\* industry or the prefecture is missing
ClassifySnippet ==
  /\ pc = "classify"
  /\ LET r == extract_industry_and_prefecture(info)
     IN  /\ industry' = r.industry
         /\ prefecture' = r.prefecture
         /\ pc' = IF r.industry = UNCLASSIFIABLE \/ r.prefecture = <<>>
                  THEN "fetch" ELSE "assemble"
  /\ UNCHANGED <<items, idx, url, snippet_text, text, info, search_outcome, fetch_outcome,
                 enriched_items, events, returned>>
  /\ UNCHANGED harness_vars

\* main.py:110-115: the page is fetched with status 200 and classified.
\* requests.get raises on an empty URL, so this needs one.
FetchOk(page) ==
  /\ pc = "fetch"
  /\ url # ""
  /\ text' = page
  /\ LET r == extract_industry_and_prefecture(page)
     IN  /\ industry' = r.industry
         /\ prefecture' = r.prefecture
  /\ fetch_outcome' = "200"
  /\ events' = Append(events, <<"fetch", idx>>)
  /\ pc' = "assemble"
  /\ UNCHANGED <<items, idx, search_outcome, url, snippet_text, info, enriched_items, returned>>
  /\ UNCHANGED harness_vars

\* a FetchNon200 without the status test: the error page is classified
FetchNon200Classified ==
  /\ pc = "fetch"
  /\ url # ""
  /\ text' = <<12398>>
  /\ LET r == extract_industry_and_prefecture(<<12398>>)
     IN  /\ industry' = r.industry
         /\ prefecture' = r.prefecture
  /\ fetch_outcome' = "non200"
  /\ events' = Append(events, <<"fetch", idx>>)
  /\ pc' = "assemble"
  /\ UNCHANGED <<items, idx, search_outcome, url, snippet_text, info,
                 enriched_items, returned>>
  /\ UNCHANGED harness_vars

\* main.py:110-112: the page is fetched with another status
FetchNon200 ==
  /\ pc = "fetch"
  /\ url # ""
  /\ fetch_outcome' = "non200"
  /\ events' = Append(events, <<"fetch", idx>>)
  /\ pc' = "assemble"
  /\ UNCHANGED <<items, idx, search_outcome, url, snippet_text, text, info, industry, prefecture,
                 enriched_items, returned>>
  /\ UNCHANGED harness_vars

\* main.py:116-117: requests.get (or the parsing) raises: a network error, a
\* timeout, an empty URL; the exception is logged
FetchRaises ==
  /\ pc = "fetch"
  /\ fetch_outcome' = "raised"
  /\ events' = Append(events, <<"fetch", idx>>)
  /\ pc' = "assemble"
  /\ UNCHANGED <<items, idx, search_outcome, url, snippet_text, text, info, industry, prefecture,
                 enriched_items, returned>>
  /\ UNCHANGED harness_vars

\* main.py:119: target_text = text if text else info
target_text_of(page_text, snippet_info) ==
  IF page_text # <<>> THEN page_text ELSE snippet_info

\* main.py:130-137: the record of the current item ("_text_excerpt" in the code)
EnrichedItem ==
  [company_name |-> items[idx].company_name,
   email        |-> items[idx].email,
   url          |-> url,
   industry     |-> industry,
   prefecture   |-> prefecture,
   text_excerpt |-> dify_context(industry, target_text_of(text, info))]

\* main.py:119-137: the excerpt is selected and the record appended
Assemble ==
  /\ pc = "assemble"
  /\ enriched_items' = Append(enriched_items, EnrichedItem)
  /\ events' = Append(events, <<"assemble", idx>>)
  /\ pc' = "loop"
  /\ UNCHANGED <<items, idx, url, snippet_text, text, info, industry, prefecture,
                 search_outcome, fetch_outcome, returned>>
  /\ UNCHANGED harness_vars

\* main.py:139-178: after the loop the unclassified records are collected
\* for the (disabled) workflow call, which changes no record, and the list
\* is returned
Return ==
  /\ pc = "loop"
  /\ idx = Len(items)
  /\ returned' = enriched_items
  /\ pc' = "done"
  /\ UNCHANGED <<items, idx, url, snippet_text, text, info, industry, prefecture,
                 search_outcome, fetch_outcome, enriched_items, events>>
  /\ UNCHANGED harness_vars

Next ==
  \/ LoopNext
  \/ \E r \in SearchResults : SearchReturns(r)
  \/ SearchEmpty
  \/ SearchRaises
  \/ Sleep
  \/ ClassifySnippet
  \/ \E page \in PageTexts : FetchOk(page)
  \/ FetchNon200
  \/ FetchRaises
  \/ Assemble
  \/ Return

Spec == Init /\ [][Next]_vars

-----------------------------------------------------------------------------
(* Properties of the classifier and the prefecture extractor, checked      *)
(* under SpecExtract on the result ret of extract_industry_and_prefecture  *)
(* applied to arg.text.                                                    *)

Labels == 1..Len(industry_keywords)

LabelName(n) == industry_keywords[n].name

\* per label, the number of its keywords that occur in t (a keyword is
\* looked for only if its first character is in t)
Counts(t) ==
  LET cs == Chars(t)
  IN  [n \in Labels |->
         LET kws == industry_keywords[n].keywords
         IN  Cardinality({k \in 1..Len(kws) : kws[k][1] \in cs /\ Contains(kws[k], t)})]

\* the labels whose number of occurring keywords is positive and maximal
TopLabels(t) ==
  LET cnt == Counts(t)
  IN  {n \in Labels : cnt[n] > 0 /\ \A m \in Labels : cnt[m] <= cnt[n]}

\* C2: the classifier returns the sentinel exactly when no keyword of the
\* table occurs in the text; otherwise it returns a label of the table whose
\* number of occurring keywords is maximal; a text with two or more keywords
\* of one label and none of any other yields that label; nothing but a label
\* of the table or the sentinel is returned.
C2_ClassifierReturnsTopLabel ==
  ret.done =>
    LET t   == arg.text
        cnt == Counts(t)
    IN  /\ (ret.industry = UNCLASSIFIABLE) <=> (\A n \in Labels : cnt[n] = 0)
        /\ (\E n \in Labels : cnt[n] > 0) =>
             \E n \in TopLabels(t) : ret.industry = LabelName(n)
        /\ \A n \in Labels :
             (cnt[n] >= 2 /\ \A m \in Labels \ {n} : cnt[m] = 0)
             => ret.industry = LabelName(n)
        /\ ret.industry \in {LabelName(n) : n \in Labels} \cup {UNCLASSIFIABLE}

\* C2 witness: two keywords of one label and none of another were classified
\* as that label
C2_Witness ==
  /\ ret.done
  /\ LET cnt == Counts(arg.text)
     IN  \E n \in Labels :
           /\ cnt[n] >= 2
           /\ \A m \in Labels \ {n} : cnt[m] = 0
           /\ ret.industry = LabelName(n)

\* the tied labels in the order their first hit was recorded (main.py:49-52
\* visits the labels in table order)
RECURSIVE JoinNames(_, _)
JoinNames(ns, sep) ==
  IF ns = {} THEN <<>>
  ELSE LET n == Min(ns)
       IN  IF ns = {n} THEN LabelName(n)
           ELSE LabelName(n) \o sep \o JoinNames(ns \ {n}, sep)

\* C3: when keywords of two labels occur with equal, maximal counts, the
\* classifier returns both labels joined by a comma, in first-seen order.
C3_TieJoinsBothLabels ==
  (ret.done /\ Cardinality(TopLabels(arg.text)) = 2)
    => ret.industry = JoinNames(TopLabels(arg.text), <<44>>)

\* C3 as amended: when keywords of two or more labels occur with equal,
\* maximal counts, the classifier returns one label only, the tied label
\* that comes first in the keyword table.
C3_TieReturnsFirstLabel ==
  (ret.done /\ Cardinality(TopLabels(arg.text)) >= 2)
    => ret.industry = LabelName(Min(TopLabels(arg.text)))

\* C3 witness: a text with keywords of exactly two labels, tied, was
\* classified as the first of them
C3_Witness ==
  /\ ret.done
  /\ Cardinality(TopLabels(arg.text)) = 2
  /\ Cardinality({n \in Labels : Counts(arg.text)[n] > 0}) = 2
  /\ ret.industry = LabelName(Min(TopLabels(arg.text)))

\* the counterparty cue word "transfer destination"
TRANSFER_DESTINATION == <<25391, 36796, 20808>>

\* the label "finance, insurance"
FINANCE == 10

\* the positions where a keyword of the finance label occurs in t
FinanceHits(t) ==
  {p \in 1..Len(t) :
     \E k \in 1..Len(industry_keywords[FINANCE].keywords) :
        MatchesAt(industry_keywords[FINANCE].keywords[k], t, p)}

\* every finance keyword hit of t is immediately preceded by the cue word,
\* and no keyword of another label occurs
OnlyCounterpartyHits(t) ==
  /\ FinanceHits(t) # {}
  /\ \A p \in FinanceHits(t) :
       MatchesAt(TRANSFER_DESTINATION, t, p - Len(TRANSFER_DESTINATION))
  /\ LET cnt == Counts(t)
     IN  \A n \in Labels \ {FINANCE} : cnt[n] = 0

\* C4: a finance keyword hit immediately preceded by the counterparty cue
\* word is discarded; a text whose only keyword hits are such hits is
\* classified as the sentinel.
C4_CounterpartyHitDiscarded ==
  (ret.done /\ OnlyCounterpartyHits(arg.text)) => ret.industry = UNCLASSIFIABLE

\* C4 as amended: a finance keyword hit immediately preceded by the
\* counterparty cue word is counted like any other hit; a text whose only
\* keyword hits are such hits is classified "finance, insurance".
C4_CounterpartyHitCounted ==
  (ret.done /\ OnlyCounterpartyHits(arg.text)) => ret.industry = LabelName(FINANCE)

\* C4 witness: such a text was classified "finance, insurance"
C4_Witness ==
  /\ ret.done
  /\ OnlyCounterpartyHits(arg.text)
  /\ ret.industry = LabelName(FINANCE)

\* the match of pref_pattern that follows a cue word at p within the filler
CuedMatchAt(t, p) ==
  LET usable == {n \in 1..Len(ADDRESS_CUES) :
                   /\ MatchesAt(ADDRESS_CUES[n], t, p)
                   /\ FillerGaps(t, p + Len(ADDRESS_CUES[n])) # {}}
  IN  IF usable = {} THEN <<>>
      ELSE LET c == Len(ADDRESS_CUES[Min(usable)])
               q == p + c + Min(FillerGaps(t, p + c))
           IN  SubSeq(t, q, q + PrefLenAt(t, q) - 1)

CuedPositions(t) == {p \in 1..Len(t) : CuedMatchAt(t, p) # <<>>}

PrefPositions(t) == {q \in 1..Len(t) : PrefLenAt(t, q) > 0}

\* C5: the extractor returns the match that follows an address cue word
\* within the filler whenever there is one, also when the pattern occurs
\* earlier without a cue word; without a cued match it returns the first
\* occurrence of the pattern, and the empty string exactly when the pattern
\* does not occur.
C5_CuedMatchPreferred ==
  ret.done =>
    LET t == arg.text
    IN  /\ CuedPositions(t) # {} =>
             ret.prefecture = CuedMatchAt(t, Min(CuedPositions(t)))
        /\ (CuedPositions(t) = {} /\ PrefPositions(t) # {}) =>
             LET q == Min(PrefPositions(t))
             IN  ret.prefecture = SubSeq(t, q, q + PrefLenAt(t, q) - 1)
        /\ (ret.prefecture = <<>>) <=> (PrefPositions(t) = {})

-----------------------------------------------------------------------------
(* Property of the excerpt selection, checked under SpecExcerpt on the     *)
(* result ret.excerpt for arg.industry and arg.text.                       *)

\* the positions where a cue phrase occurs in t
CuePositions(t) ==
  {p \in 1..Len(t) : \E n \in 1..Len(EXCERPT_CUES) : MatchesAt(EXCERPT_CUES[n], t, p)}

\* the length of the cue phrase that occurs in t at p
CueLenAt(t, p) ==
  Len(EXCERPT_CUES[Min({n \in 1..Len(EXCERPT_CUES) : MatchesAt(EXCERPT_CUES[n], t, p)})])

\* e is a contiguous part of t
IsSliceOf(e, t) == e = <<>> \/ \E p \in 1..Len(t) : MatchesAt(e, t, p)

\* C6: for an unclassifiable text with a cue phrase the excerpt is the
\* trimmed slice from max(0, s - 100), s the start of the first cue
\* occurrence, to between 200 and 300 characters after the end of the cue
\* phrase, clamped to the length of the text; without a cue phrase it is the
\* trimmed prefix of 300 to 500 characters at most; it is always a
\* contiguous part of the text, of bounded length.
C6_ExcerptWindow ==
  ret.done =>
    LET t == arg.text
        e == ret.excerpt
    IN  /\ (arg.industry = UNCLASSIFIABLE /\ CuePositions(t) # {}) =>
             LET s      == Min(CuePositions(t)) - 1
                 cueEnd == s + CueLenAt(t, s + 1)
                 from   == IF s - 100 > 0 THEN s - 100 ELSE 0
             IN  \E k \in 200..300 :
                    LET to == IF cueEnd + k < Len(t) THEN cueEnd + k ELSE Len(t)
                    IN  Len(e) <= to - from /\ e = Strip(SubSeq(t, from + 1, to))
        /\ (arg.industry = UNCLASSIFIABLE /\ CuePositions(t) = {}) =>
             \E k \in 300..500 :
                e = Strip(SubSeq(t, 1, IF k < Len(t) THEN k ELSE Len(t)))
        /\ IsSliceOf(e, t)
        /\ Len(e) <= 500

\* C6 witness: an excerpt was cut around a cue phrase with more than 100
\* characters before it and more than 300 after it
C6_Witness ==
  /\ ret.done
  /\ arg.industry = UNCLASSIFIABLE
  /\ CuePositions(arg.text) # {}
  /\ Min(CuePositions(arg.text)) > 101
  /\ Len(arg.text) > Min(CuePositions(arg.text)) + 304
  /\ Len(ret.excerpt) >= 300
  /\ Len(ret.excerpt) < Len(arg.text)

-----------------------------------------------------------------------------
(* Properties of handle_batch_request, checked under Spec.                 *)

\* the record of the item whose loop body has just ended
LastRecord == enriched_items[Len(enriched_items)]

InLoopBody == pc \in {"search", "sleep", "classify", "fetch", "assemble"}

\* C1: whatever the search and the page fetch do, the handler returns one
\* record per input record, in input order, record i carrying the
\* company_name and the email of input item i; no outcome ends the batch
\* early or loses a record: after a failed search the delay follows, after
\* a failed fetch the assembly, after every assembly the next item or the
\* return, and the handler ends only with all records.
C1_OneRecordPerInput ==
  /\ Len(enriched_items) = (IF InLoopBody THEN idx - 1 ELSE idx)
  /\ Len(enriched_items) <= Len(items)
  /\ \A i \in 1..Len(enriched_items) :
       /\ enriched_items[i].company_name = items[i].company_name
       /\ enriched_items[i].email = items[i].email
  /\ pc = "done" => (returned = enriched_items /\ Len(returned) = Len(items))
  /\ search_outcome \in {"empty", "raised"} =>
       (pc \in {"sleep", "classify", "fetch", "assemble", "loop", "done"}
        /\ (pc = "sleep" => ENABLED Sleep))
  /\ fetch_outcome \in {"non200", "raised"} => pc \in {"assemble", "loop", "done"}
  /\ pc = "loop" => ENABLED (LoopNext \/ Return)

\* C1 witness: a batch of two different items was returned after a failed
\* search for the first and a failed page fetch for the second
C1_Witness ==
  /\ pc = "done"
  /\ Len(items) >= 2
  /\ items[1] # items[2]
  /\ Len(returned) = Len(items)
  /\ returned[1].url = ""
  /\ returned[2].url # ""
  /\ fetch_outcome = "raised"

\* C7: after a page fetch with status 200, an industry classified from the
\* snippet and a non-empty prefecture extracted from the snippet are in the
\* output record as they were after the snippet step.
C7_SetFieldsKeptOnFetch ==
  (pc = "loop" /\ idx >= 1 /\ fetch_outcome = "200") =>
    LET s == extract_industry_and_prefecture(info)
    IN  /\ s.industry # UNCLASSIFIABLE => LastRecord.industry = s.industry
        /\ s.prefecture # <<>> => LastRecord.prefecture = s.prefecture

\* C8: after a page fetch that returned another status than 200 or raised,
\* the industry and the prefecture of the output record are the values
\* derived from the snippet, and the loop goes on.
C8_SnippetValuesKeptOnFailure ==
  (pc = "loop" /\ idx >= 1 /\ fetch_outcome \in {"non200", "raised"}) =>
    LET s == extract_industry_and_prefecture(snippet_text)
    IN  /\ LastRecord.industry = s.industry
        /\ LastRecord.prefecture = s.prefecture
        /\ ENABLED (LoopNext \/ Return)

\* C8 witness: a record kept the industry of its snippet after a fetch with
\* a status other than 200, and another record is still to come
C8_Witness ==
  /\ pc = "loop"
  /\ idx >= 1
  /\ idx < Len(items)
  /\ fetch_outcome = "non200"
  /\ LastRecord.industry # UNCLASSIFIABLE
  /\ LastRecord.industry = extract_industry_and_prefecture(snippet_text).industry

\* how often the event e occurs
Count(e) == Cardinality({k \in 1..Len(events) : events[k] = e})

\* what may directly follow an event
Follows(a, b) ==
  \/ a[1] = "search"   /\ b = <<"sleep", a[2]>>
  \/ a[1] = "sleep"    /\ b \in {<<"fetch", a[2]>>, <<"assemble", a[2]>>}
  \/ a[1] = "fetch"    /\ b = <<"assemble", a[2]>>
  \/ a[1] = "assemble" /\ b = <<"search", a[2] + 1>>

\* C9: the events of a batch are, record by record in input order, one
\* search, one delay (also after a failed search), at most one page fetch,
\* the assembly; nothing is retried, and no event of a record comes before
\* the previous record is assembled.
C9_EventsForwardAndSequential ==
  /\ events # <<>> => events[1] = <<"search", 1>>
  /\ \A k \in 1..(Len(events) - 1) : Follows(events[k], events[k + 1])
  /\ \A i \in 1..Len(items) :
       /\ Count(<<"search", i>>) <= 1
       /\ Count(<<"sleep", i>>) <= 1
       /\ Count(<<"fetch", i>>) <= 1
       /\ Count(<<"assemble", i>>) <= 1
  /\ \A i \in 1..Len(enriched_items) :
       /\ Count(<<"search", i>>) = 1
       /\ Count(<<"sleep", i>>) = 1
       /\ Count(<<"assemble", i>>) = 1
  /\ pc = "done" => Len(enriched_items) = Len(items)

\* C9 witness: a batch ended whose first record had a page fetch and whose
\* second record, after a failed search, had its delay
C9_Witness ==
  /\ pc = "done"
  /\ Len(items) >= 2
  /\ Count(<<"fetch", 1>>) = 1
  /\ search_outcome = "raised"
  /\ Count(<<"sleep", 2>>) = 1

\* C10: the excerpt of a record is computed from the page text whenever a
\* page was fetched with status 200, and from the snippet otherwise.
C10_ExcerptFromPageWhenFetched ==
  (pc = "loop" /\ idx >= 1) =>
    LastRecord.text_excerpt =
      dify_context(LastRecord.industry,
                   IF fetch_outcome = "200" THEN text ELSE info)

====
